---- MODULE Spec2Model ----
(***************************************************************************)
(* Generation orchestration workflow of the artifex backend:               *)
(*   ImageGenerationOrchestrator  (services/imageGenerationOrchestrator)   *)
(*   FreepikImageService          (services/freepikService)                *)
(* Each job is one call of an orchestrator entry point.  A job advances    *)
(* one await at a time, so that jobs of the same owner interleave exactly  *)
(* where the Node.js event loop lets them interleave.                      *)
(***************************************************************************)
EXTENDS Integers, Sequences, FiniteSets, TLC

VARIABLES
    active,         \* the jobs (orchestrator calls) of this run
    quotaInfo,      \* context.quotaInfo.remaining handed to every job
    context,        \* the rest of the GenerationContext handed to the job
    monthlyUsage,   \* the owner's User document: monthlyUsage
    kind,           \* entry point called for the job
    mode,           \* behaviour of the external provider for the job
    cost,           \* QuotaUtils.calculateGenerationCost(...) of the request
    inputImages,    \* number of input images handed to the entry point
    pc,             \* position of the job in its entry point
    record,         \* generationRecord, the in-memory document
    db,             \* the ImageGeneration document as persisted
    localUsage,     \* user.monthlyUsage of the document read at line 660
    attempt,        \* RetryHandler attempt number of the job
    pollAttempt,    \* loop variable `attempt` of the poll loop
    submitCalls,    \* provider submit (POST) calls made for the job
    pollCalls,      \* provider poll (GET) calls made for the job
    taskIds,        \* provider task ids obtained for the job
    reserved,       \* the job saved its increment of monthlyUsage
    error,          \* the error in flight (thrown, not yet caught)
    images,         \* freepikResponse.images / processedImages
    uploadOutcome,  \* how the upload of the job's output to the media store went
    historyDocs,    \* ImageGeneration documents created for the request
    writeFailed,    \* a write of the job to the ImageGeneration collection failed
    quotaCalls,     \* calls of validateAndConsumeQuota with the job's record
    response,       \* the HTTP response the controller sent for the request
    upload,         \* the upload middleware's view of the request: req.file(s)
    result          \* what the entry point returned or threw

vars == << active, quotaInfo, context, monthlyUsage, kind, mode, cost, inputImages, pc,
           record, db,
           localUsage, attempt, pollAttempt, submitCalls, pollCalls, taskIds,
           reserved, error, images, uploadOutcome, historyDocs,
           writeFailed, quotaCalls, response, upload, result >>

(***************************************************************************)
(* Bounds of the model.                                                    *)
(***************************************************************************)
NumJobs == 2
MaxCost == 2
MaxRemaining == 2
MaxQuotaCalls == 2
MaxImages == 2

Jobs == 1..NumJobs

(***************************************************************************)
(* Program constants.                                                      *)
(***************************************************************************)
RetryMaxAttempts_4 == 3 + 1
RetryMaxAttempts == 3
ImagePollCeiling == 30
VideoPollCeiling == 60

ImageKinds == {"text-to-image", "image-to-image", "multi-image", "refine"}
Kinds == ImageKinds \cup {"image-to-video"}

(***************************************************************************)
(* The external provider.  Its behaviour for one job is fixed by a mode;   *)
(* a response depends on the mode, on the submit attempt and on the poll.  *)
(***************************************************************************)
ProviderErrorText == "safety violation"

Modes == { "Immediate",        \* submit answers with the final image_url
           "PollOk",           \* task id, second poll COMPLETED with an image
           "PollOkLower",      \* as PollOk, status in lower case
           "Submit5xx",        \* every submit answers 503
           "Submit4xx",        \* every submit answers 400
           "SubmitAuth",       \* every submit answers 401
           "FlakySubmit",      \* first submit answers 503, then Immediate
           "AlwaysRunning",    \* every poll answers PROCESSING
           "PollFailed",       \* first poll FAILED with an error text
           "PollFailedOnce",   \* first task FAILED, a resubmission succeeds
           "PollEmpty",        \* COMPLETED, empty generated, no image_url
           "PollEmptyOnce",    \* first task as PollEmpty, a resubmission succeeds
           "PollNoUrl",        \* COMPLETED, generated[0] carries no url
           "PollHttpError",    \* first poll answers HTTP 502
           "InvalidResponse" } \* submit answers 200 without url or task id

\* provider behaviours of the jobs that run concurrently: the quota steps are
\* the only ones that touch shared state, so a job needs no long provider run
ShortModes == { "Immediate", "Submit4xx" }

ModeRank(m) == IF m = "Immediate" THEN 0 ELSE 1

NoUrl == "none"

SubmitResponse(m, a) ==
    CASE m = "Immediate"   -> [ok |-> TRUE, status |-> 200, image_url |-> "https://x/img.png", task_id |-> NoUrl]
      [] m = "Submit5xx"   -> [ok |-> FALSE, status |-> 503, image_url |-> NoUrl, task_id |-> NoUrl]
      [] m = "Submit4xx"   -> [ok |-> FALSE, status |-> 400, image_url |-> NoUrl, task_id |-> NoUrl]
      [] m = "SubmitAuth"  -> [ok |-> FALSE, status |-> 401, image_url |-> NoUrl, task_id |-> NoUrl]
      [] m = "FlakySubmit" -> IF a = 1
                              THEN [ok |-> FALSE, status |-> 503, image_url |-> NoUrl, task_id |-> NoUrl]
                              ELSE [ok |-> TRUE, status |-> 200, image_url |-> "https://x/img.png", task_id |-> NoUrl]
      [] m = "InvalidResponse" -> [ok |-> TRUE, status |-> 200, image_url |-> NoUrl, task_id |-> NoUrl]
      [] OTHER             -> [ok |-> TRUE, status |-> 200, image_url |-> NoUrl, task_id |-> "task"]

\* a = submit attempt that created the task, p = number of this poll (1..)
PollResponse(m, a, p) ==
    CASE m = "PollOk" /\ p >= 2
            -> [http |-> 200, status |-> "COMPLETED", generated |-> <<"https://x/img.png">>, error |-> ""]
      [] m = "PollOkLower" /\ p >= 2
            -> [http |-> 200, status |-> "completed", generated |-> <<"https://x/img.png">>, error |-> ""]
      [] m = "PollFailed"
            -> [http |-> 200, status |-> "FAILED", generated |-> <<>>, error |-> ProviderErrorText]
      [] m = "PollFailedOnce" /\ a = 1
            -> [http |-> 200, status |-> "FAILED", generated |-> <<>>, error |-> ProviderErrorText]
      [] m = "PollFailedOnce" /\ a > 1
            -> [http |-> 200, status |-> "COMPLETED", generated |-> <<"https://x/img.png">>, error |-> ""]
      [] m = "PollEmpty"
            -> [http |-> 200, status |-> "COMPLETED", generated |-> <<>>, error |-> ""]
      [] m = "PollEmptyOnce" /\ a = 1
            -> [http |-> 200, status |-> "COMPLETED", generated |-> <<>>, error |-> ""]
      [] m = "PollEmptyOnce" /\ a > 1
            -> [http |-> 200, status |-> "COMPLETED", generated |-> <<"https://x/img.png">>, error |-> ""]
      [] m = "PollNoUrl"
            -> [http |-> 200, status |-> "COMPLETED", generated |-> <<NoUrl>>, error |-> ""]
      [] m = "PollHttpError"
            -> [http |-> 502, status |-> "", generated |-> <<>>, error |-> ""]
      [] OTHER
            -> [http |-> 200, status |-> "PROCESSING", generated |-> <<>>, error |-> ""]

(***************************************************************************)
(* Errors.  message = prefix ++ detail, kept as the two parts so that the  *)
(* text taken from a provider response stays recognisable.                 *)
(***************************************************************************)
NoMessage == [prefix |-> "", detail |-> ""]

NoError == [name |-> "none", code |-> "none", status |-> 0, message |-> NoMessage]

AppError(prefix, detail, status, code) ==
    [name |-> "AppError", code |-> code, status |-> status,
     message |-> [prefix |-> prefix, detail |-> detail]]

\* utils/imageGenerationErrors: subclasses of AppError
QuotaExceededError(prefix) ==
    [name |-> "QuotaExceededError", code |-> "QUOTA_EXCEEDED", status |-> 429,
     message |-> [prefix |-> prefix, detail |-> ""]]

ValidationError(prefix) ==
    [name |-> "ValidationError", code |-> "VALIDATION_ERROR", status |-> 400,
     message |-> [prefix |-> prefix, detail |-> ""]]

\* an Error that is not an AppError (database driver, runtime)
PlainError(prefix) ==
    [name |-> "Error", code |-> "none", status |-> 0,
     message |-> [prefix |-> prefix, detail |-> ""]]

SubscriptionError(prefix) ==
    [name |-> "SubscriptionError", code |-> "SUBSCRIPTION_ERROR", status |-> 403,
     message |-> [prefix |-> prefix, detail |-> ""]]

IsAppError(e) == e.name \in {"AppError", "QuotaExceededError", "ValidationError",
                             "SubscriptionError"}

\* `data.error || 'Unknown error'`
OrUnknown(text) == IF text = "" THEN "Unknown error" ELSE text

\* FreepikImageService.handleFreepikError: an AppError is returned as it is
handleFreepikError(e) ==
    IF IsAppError(e) THEN e
    ELSE AppError(e.message.prefix, e.message.detail,
                  IF e.status = 0 THEN 500 ELSE e.status, "FREEPIK_ERROR")

(***************************************************************************)
(* RetryHandler.withRetry(operation, 3, 1000): at most maxRetries calls of *)
(* the operation, a further call only after a transient failure (5xx,      *)
(* timeout, rate limit).                                                   *)
(***************************************************************************)
IsRetryable_All(e) == TRUE
IsRetryable(e) == e.status >= 500 \/ e.status \in {408, 429}

ShouldRetry(e, a) == IsRetryable(e) /\ a < RetryMaxAttempts

(***************************************************************************)
(* The failure reason of the specification, read off the error the         *)
(* orchestrator reports (error.code, details.statusCode).                  *)
(***************************************************************************)
Reason(code, status) ==
    CASE code = "QUOTA_EXCEEDED"                -> "QuotaExceeded"
      [] code = "VALIDATION_ERROR"              -> "ValidationError"
      [] code \in {"FREEPIK_GENERATION_FAILED", "FREEPIK_VIDEO_GENERATION_FAILED"}
                                                -> "ProviderGenerationFailed"
      [] code \in {"FREEPIK_TIMEOUT", "FREEPIK_VIDEO_TIMEOUT"} -> "Timeout"
      [] code \in {"NO_IMAGES_GENERATED", "NO_IMAGE_URL", "NO_VIDEO_URL"}
                                                -> "NoOutputsProduced"
      [] code \in {"FREEPIK_API_ERROR", "FREEPIK_VIDEO_API_ERROR"}
           /\ (status >= 500 \/ status \in {408, 429}) -> "ProviderUnavailable"
      [] code \in {"FREEPIK_API_ERROR", "FREEPIK_VIDEO_API_ERROR"}
           /\ ~(status >= 500 \/ status \in {408, 429}) -> "ProviderRejected"
      [] OTHER                                  -> "Unexpected"

(***************************************************************************)
(* Records and results.                                                    *)
(***************************************************************************)
NoRecord == [status |-> "none", credits |-> 0, outputImages |-> <<>>,
             errorMessage |-> NoMessage]

\* res.status(status).json(body): the status and the fields of the body
NoResponse == [status |-> 0, body |-> {}]

HttpResponse(status, body) == [status |-> status, body |-> body]

\* the temporary files of the request that are on disk, the loop index of
\* the dimension check, and what the middleware did with the request
NoUpload == [onDisk |-> 0, idx |-> 0, sent |-> 0, nextCalls |-> 0, reason |-> "none"]

NoResult == [outcome |-> "none", code |-> "none", message |-> NoMessage,
             statusCode |-> 0, images |-> <<>>]

\* orchestrator catch: the failure object it returns
FailureResult(e) ==
    [outcome |-> "failure",
     code |-> IF IsAppError(e) THEN e.code ELSE "GENERATION_FAILED",
     message |-> e.message,
     statusCode |-> IF IsAppError(e) THEN e.status ELSE 0,
     images |-> <<>>]

SuccessResult(imgs) ==
    [outcome |-> "success", code |-> "none", message |-> NoMessage,
     statusCode |-> 0, images |-> imgs]

\* generateVideo rethrows: the error leaves the orchestrator
ThrownResult(e) ==
    [outcome |-> "thrown", code |-> e.code, message |-> e.message,
     statusCode |-> e.status, images |-> <<>>]

(***************************************************************************)
(* The GenerationContext of a request: the caller's tier, the stored user, *)
(* the subscription and the request parameters that are validated.  A      *)
(* prompt is its length and the length of what trim() leaves of it.        *)
(***************************************************************************)
Tiers == {"free", "plus", "pro"}

PromptMaxLength == 2000

getModelCapabilities(tier) ==
    CASE tier = "plus" -> [availableQualities |-> {"standard", "hd"}, maxBatchSize |-> 3]
      [] tier = "pro"  -> [availableQualities |-> {"standard", "hd", "ultra"}, maxBatchSize |-> 5]
      [] OTHER         -> [availableQualities |-> {"standard"}, maxBatchSize |-> 1]

QualityAvailable_Any(tier, quality) == TRUE
QualityAvailable(tier, quality) ==
    quality \in getModelCapabilities(tier).availableQualities

\* validateGenerationContext: the error it throws, NoError when it returns
validateGenerationContext(ctx) ==
    IF ctx.user # "active"
    THEN ValidationError("User not found or inactive")
    ELSE IF ~ctx.isActive /\ ctx.subscriptionTier # "free"
    THEN SubscriptionError("Subscription is not active")
    ELSE IF ctx.prompt.len = 0 \/ ctx.prompt.trimmed = 0
    THEN ValidationError("Prompt is required and cannot be empty")
    ELSE IF ctx.prompt.len > PromptMaxLength
    THEN ValidationError("Prompt exceeds maximum length of 2000 characters")
    ELSE IF ~QualityAvailable(ctx.subscriptionTier, ctx.quality)
    THEN ValidationError("Quality not available for tier")
    ELSE IF ctx.batchSize # 0
            /\ ctx.batchSize > getModelCapabilities(ctx.subscriptionTier).maxBatchSize
    THEN ValidationError("Batch size exceeds limit for tier")
    ELSE NoError

\* generateMultiImageComposition, line 270
TierAllowsComposition_Any(tier) == TRUE
TierAllowsComposition(tier) == tier # "free"

\* a request of tier t that passes every check
ValidContext(t) ==
    [subscriptionTier |-> t, user |-> "active", isActive |-> TRUE,
     prompt |-> [len |-> PromptMaxLength, trimmed |-> PromptMaxLength],
     quality |-> "standard", batchSize |-> 1]

\* the requests that differ from it in one field
Variants(c) ==
    { [c EXCEPT !.user = "inactive"], [c EXCEPT !.user = "unknown"],
      [c EXCEPT !.isActive = FALSE],
      [c EXCEPT !.prompt = [len |-> 0, trimmed |-> 0]],
      [c EXCEPT !.prompt = [len |-> 3, trimmed |-> 0]],
      [c EXCEPT !.prompt = [len |-> PromptMaxLength + 1, trimmed |-> PromptMaxLength + 1]],
      [c EXCEPT !.quality = "hd"], [c EXCEPT !.quality = "ultra"],
      [c EXCEPT !.batchSize = 4], [c EXCEPT !.batchSize = 6] }

Contexts == UNION { {ValidContext(t)} \cup Variants(ValidContext(t)) : t \in Tiers }

(***************************************************************************)
(* Initial states: either one job of any kind against any provider         *)
(* behaviour, or NumJobs text-to-image jobs of the same owner started      *)
(* together.  The owner has consumed nothing yet.                          *)
(***************************************************************************)
InitLocals ==
    /\ pc = [j \in Jobs |-> IF j \in active THEN "start" ELSE "idle"]
    /\ record = [j \in Jobs |-> NoRecord]
    /\ db = [j \in Jobs |-> NoRecord]
    /\ localUsage = [j \in Jobs |-> 0]
    /\ attempt = [j \in Jobs |-> 1]
    /\ pollAttempt = [j \in Jobs |-> 0]
    /\ submitCalls = [j \in Jobs |-> 0]
    /\ pollCalls = [j \in Jobs |-> 0]
    /\ taskIds = [j \in Jobs |-> 0]
    /\ reserved = [j \in Jobs |-> FALSE]
    /\ error = [j \in Jobs |-> NoError]
    /\ images = [j \in Jobs |-> <<>>]
    /\ uploadOutcome = [j \in Jobs |-> "none"]
    /\ historyDocs = [j \in Jobs |-> 0]
    /\ writeFailed = [j \in Jobs |-> FALSE]
    /\ quotaCalls = [j \in Jobs |-> 0]
    /\ response = [j \in Jobs |-> NoResponse]
    /\ upload = [j \in Jobs |-> NoUpload]
    /\ result = [j \in Jobs |-> NoResult]

\* input images of an entry point: none for a prompt, one source image, or
\* the n images of a composition
InputCount(k, n) ==
    CASE k = "text-to-image" -> 0
      [] k = "multi-image"   -> n
      [] OTHER               -> 1

InitSingle ==
    /\ active = {1}
    /\ \E k \in Kinds, m \in Modes, c \in 1..MaxCost, n \in 1..MaxImages :
          /\ kind = [j \in Jobs |-> IF j = 1 THEN k ELSE "text-to-image"]
          /\ mode = [j \in Jobs |-> IF j = 1 THEN m ELSE "Immediate"]
          /\ cost = [j \in Jobs |-> IF j = 1 THEN c ELSE 1]
          /\ inputImages = [j \in Jobs |-> IF j = 1 THEN InputCount(k, n) ELSE 0]
          /\ \E x \in (IF k \in ImageKinds THEN Contexts ELSE {ValidContext("plus")}) :
                context = [j \in Jobs |-> IF j = 1 THEN x ELSE ValidContext("plus")]

\* The jobs run the same code and differ only by their number: of the runs
\* that are equal up to a renaming of the jobs, one is kept (modes, then
\* costs, in nondecreasing order).
InitConcurrent ==
    /\ active = Jobs
    /\ kind = [j \in Jobs |-> "text-to-image"]
    /\ inputImages = [j \in Jobs |-> 0]
    /\ context = [j \in Jobs |-> ValidContext("plus")]
    /\ mode \in [Jobs -> ShortModes]
    /\ cost \in [Jobs -> 1..MaxCost]
    /\ \A i \in Jobs : \A j \in Jobs :
          i < j => \/ ModeRank(mode[i]) < ModeRank(mode[j])
                   \/ mode[i] = mode[j] /\ cost[i] <= cost[j]

Init ==
    /\ quotaInfo \in 0..MaxRemaining
    /\ monthlyUsage = 0
    /\ InitSingle \/ InitConcurrent
    /\ InitLocals

(***************************************************************************)
(* Helpers of the actions.                                                 *)
(***************************************************************************)
\* a throw inside the try block of an image entry point
Throw(j, e) ==
    /\ error' = [error EXCEPT ![j] = e]
    /\ pc' = [pc EXCEPT ![j] = "catch"]

\* the operation handed to executeWithRetry threw e
OperationFails(j, e) ==
    IF ShouldRetry(e, attempt[j])
    THEN /\ attempt' = [attempt EXCEPT ![j] = @ + 1]
         /\ pollAttempt' = [pollAttempt EXCEPT ![j] = 0]
         /\ pc' = [pc EXCEPT ![j] = "submit"]
         /\ UNCHANGED error
    ELSE /\ Throw(j, e)
         /\ pollAttempt' = [pollAttempt EXCEPT ![j] = 0]
         /\ UNCHANGED attempt

\* updateGenerationRecord: the try/catch around save swallows the failure
UpdateSwallowsErrors_Off == FALSE
UpdateSwallowsErrors == TRUE

\* request.batchSize of the context handed to validateAndConsumeQuota:
\* generateMultiImageComposition sets it to inputImages.length (303-309)
EnhancedBatchSize(k, n) == IF k = "multi-image" THEN n ELSE 1

\* const creditsNeeded = generationRecord.credits (line 647): the batch size
\* of the context is not read
CreditsNeeded_Batch(batchSize, generationRecord) == generationRecord.credits * batchSize
CreditsNeeded(batchSize, generationRecord) == generationRecord.credits

\* quota check of validateAndConsumeQuota, line 650
HasEnoughQuota_Skipped(remaining, creditsNeeded) == TRUE
HasEnoughQuota(remaining, creditsNeeded) == ~(remaining < creditsNeeded)

\* uploadToCloudinary, lines 243-256: the catch block answers a failed upload
\* with the provider url instead of throwing
UploadFallsBack_Off == FALSE
UploadFallsBack == TRUE

\* textToImage: imageData built from the upload result, lines 353-374; after
\* a failed upload every url field repeats the provider url
ImageData(imageUrl, uploaded) ==
    [url |-> IF uploaded THEN "https://cdn/img" ELSE imageUrl,
     secureUrl |-> IF uploaded THEN "https://cdn/img" ELSE imageUrl,
     cloudinaryUrl |-> IF uploaded THEN "https://cdn/img" ELSE imageUrl,
     publicId |-> IF uploaded THEN "pid" ELSE "freepik_ts",
     originalUrl |-> imageUrl,
     processingError |-> ""]

ResponseImages_Empty(imageUrl, uploaded) == <<>>
ResponseImages(imageUrl, uploaded) == << ImageData(imageUrl, uploaded) >>

(***************************************************************************)
(* Classification of the status string of a poll response, one operator    *)
(* per poll loop of the repository.                                        *)
(***************************************************************************)
\* pollGenerationResult, part_002:157 and 188
ClassifyImagePoll(status) ==
    CASE status \in {"COMPLETED", "completed"} -> "succeeded"
      [] status \in {"FAILED", "failed"}       -> "failed"
      [] OTHER                                 -> "stillRunning"

\* pollVideoGenerationResult, part_002:692 and 714
ClassifyVideoPoll(status) ==
    CASE status \in {"COMPLETED", "completed"} -> "succeeded"
      [] status \in {"FAILED", "failed"}       -> "failed"
      [] OTHER                                 -> "stillRunning"

\* waitForVideoCompletion, videoGenerationService.ts:152 and 156
ClassifySyncPoll(status) ==
    CASE status = "COMPLETED" -> "succeeded"
      [] status = "FAILED"    -> "failed"
      [] OTHER                -> "stillRunning"

(***************************************************************************)
(* Image entry points: generateTextToImage, generateImageToImage,          *)
(* generateMultiImageComposition, refineImage.                             *)
(***************************************************************************)
ValidateImage(j) ==
    /\ pc[j] = "start"
    /\ kind[j] \in ImageKinds \ {"text-to-image"}
    /\ IF kind[j] = "multi-image" /\ ~TierAllowsComposition(context[j].subscriptionTier)
       THEN Throw(j, SubscriptionError("Multi-image composition requires Plus or Pro subscription"))
       ELSE \E valid \in BOOLEAN :
               IF valid
               THEN pc' = [pc EXCEPT ![j] = "validate"] /\ UNCHANGED error
               ELSE Throw(j, ValidationError("Input image validation failed"))
    /\ UNCHANGED << active, quotaInfo, context, upload, response, inputImages, quotaCalls, writeFailed, historyDocs, uploadOutcome, monthlyUsage, kind, mode, cost, record, db,
                    localUsage, attempt, pollAttempt, submitCalls, pollCalls,
                    taskIds, reserved, images, result >>

ValidateContext(j) ==
    /\ \/ pc[j] = "start" /\ kind[j] = "text-to-image"
       \/ pc[j] = "validate"
    /\ \E found \in BOOLEAN :
          IF ~found
          THEN Throw(j, PlainError("UserModel.findByClerkId failed"))
          ELSE IF validateGenerationContext(context[j]) = NoError
          THEN pc' = [pc EXCEPT ![j] = "create"] /\ UNCHANGED error
          ELSE Throw(j, validateGenerationContext(context[j]))
    /\ UNCHANGED << active, quotaInfo, context, upload, response, inputImages, quotaCalls, writeFailed, historyDocs, uploadOutcome, monthlyUsage, kind, mode, cost, record, db,
                    localUsage, attempt, pollAttempt, submitCalls, pollCalls,
                    taskIds, reserved, images, result >>

CreateRecord(j) ==
    /\ pc[j] = "create"
    /\ \E saved \in BOOLEAN :
          /\ writeFailed' = [writeFailed EXCEPT ![j] = @ \/ ~saved]
          /\ IF saved
             THEN LET doc == [status |-> "pending", credits |-> cost[j],
                              outputImages |-> <<>>, errorMessage |-> NoMessage]
                  IN /\ record' = [record EXCEPT ![j] = doc]
                     /\ db' = [db EXCEPT ![j] = doc]
                     /\ historyDocs' = [historyDocs EXCEPT ![j] = @ + 1]
                     /\ pc' = [pc EXCEPT ![j] = "quota"]
                     /\ UNCHANGED error
             ELSE /\ Throw(j, PlainError("save failed"))
                  /\ UNCHANGED << record, db, historyDocs >>
    /\ UNCHANGED << active, quotaInfo, context, upload, response, inputImages, quotaCalls, uploadOutcome, monthlyUsage, kind, mode, cost,
                    localUsage, attempt, pollAttempt, submitCalls, pollCalls,
                    taskIds, reserved, images, result >>

\* validateAndConsumeQuota up to its first await
QuotaCheck(j) ==
    /\ pc[j] = "quota"
    /\ quotaCalls' = [quotaCalls EXCEPT ![j] = @ + 1]
    /\ IF HasEnoughQuota(quotaInfo,
                         CreditsNeeded(EnhancedBatchSize(kind[j], inputImages[j]),
                                       record[j]))
       THEN pc' = [pc EXCEPT ![j] = "quotaRead"] /\ UNCHANGED error
       ELSE Throw(j, QuotaExceededError("Insufficient quota"))
    /\ UNCHANGED << active, quotaInfo, context, upload, response, inputImages, writeFailed, historyDocs, uploadOutcome, monthlyUsage, kind, mode, cost, record, db,
                    localUsage, attempt, pollAttempt, submitCalls, pollCalls,
                    taskIds, reserved, images, result >>

\* UserModel.findByClerkId answers
QuotaRead(j) ==
    /\ pc[j] = "quotaRead"
    /\ \E found \in BOOLEAN :
          IF found
          THEN /\ localUsage' = [localUsage EXCEPT ![j] = monthlyUsage]
               /\ pc' = [pc EXCEPT ![j] = "quotaSave"]
               /\ UNCHANGED error
          ELSE /\ Throw(j, QuotaExceededError("User not found"))
               /\ UNCHANGED localUsage
    /\ UNCHANGED << active, quotaInfo, context, upload, response, inputImages, quotaCalls, writeFailed, historyDocs, uploadOutcome, monthlyUsage, kind, mode, cost, record, db,
                    attempt, pollAttempt, submitCalls, pollCalls,
                    taskIds, reserved, images, result >>

\* user.monthlyUsage += creditsNeeded; await user.save()
QuotaSave(j) ==
    /\ pc[j] = "quotaSave"
    /\ \E saved \in BOOLEAN :
          IF saved
          THEN /\ monthlyUsage' = localUsage[j]
                                  + CreditsNeeded(EnhancedBatchSize(kind[j], inputImages[j]),
                                                  record[j])
               /\ reserved' = [reserved EXCEPT ![j] = TRUE]
               /\ pc' = [pc EXCEPT ![j] = "markProcessing"]
               /\ UNCHANGED error
          ELSE /\ Throw(j, QuotaExceededError("Failed to validate/consume quota"))
               /\ UNCHANGED << monthlyUsage, reserved >>
    /\ localUsage' = [localUsage EXCEPT ![j] = 0]   \* `user` is not used again
    /\ UNCHANGED << active, quotaInfo, context, upload, response, inputImages, quotaCalls, writeFailed, historyDocs, uploadOutcome, kind, mode, cost, record, db,
                    attempt, pollAttempt, submitCalls, pollCalls,
                    taskIds, images, result >>

\* generationRecord.status = 'processing'; await generationRecord.save()
MarkProcessing(j) ==
    /\ pc[j] = "markProcessing"
    /\ record' = [record EXCEPT ![j].status = "processing"]
    /\ \E saved \in BOOLEAN :
          /\ writeFailed' = [writeFailed EXCEPT ![j] = @ \/ ~saved]
          /\ IF saved
             THEN /\ db' = [db EXCEPT ![j] = record'[j]]
                  /\ pc' = [pc EXCEPT ![j] = "submit"]
                  /\ UNCHANGED error
             ELSE /\ Throw(j, QuotaExceededError("Failed to validate/consume quota"))
                  /\ UNCHANGED db
    /\ UNCHANGED << active, quotaInfo, context, upload, response, inputImages, quotaCalls, historyDocs, uploadOutcome, monthlyUsage, kind, mode, cost,
                    localUsage, attempt, pollAttempt, submitCalls, pollCalls,
                    taskIds, reserved, images, result >>

\* FreepikImageService.textToImage up to the answer of the POST
Submit(j) ==
    /\ pc[j] = "submit"
    /\ submitCalls' = [submitCalls EXCEPT ![j] = @ + 1]
    /\ LET r == SubmitResponse(mode[j], attempt[j])
       IN CASE ~r.ok ->
                 /\ OperationFails(j, handleFreepikError(
                        AppError("Freepik API error: ", "", r.status, "FREEPIK_API_ERROR")))
                 /\ UNCHANGED << taskIds, images >>
            [] r.ok /\ r.image_url # NoUrl ->
                 /\ images' = [images EXCEPT ![j] = << r.image_url >>]
                 /\ pc' = [pc EXCEPT ![j] = "upload"]
                 /\ UNCHANGED << taskIds, error, attempt, pollAttempt >>
            [] r.ok /\ r.image_url = NoUrl /\ r.task_id # NoUrl ->
                 /\ taskIds' = [taskIds EXCEPT ![j] = @ + 1]
                 /\ pollAttempt' = [pollAttempt EXCEPT ![j] = 0]
                 /\ pc' = [pc EXCEPT ![j] = "poll"]
                 /\ UNCHANGED << images, error, attempt >>
            [] OTHER ->
                 /\ OperationFails(j, handleFreepikError(
                        AppError("Invalid response from Freepik API", "", 500,
                                 "INVALID_FREEPIK_RESPONSE")))
                 /\ UNCHANGED << taskIds, images >>
    /\ UNCHANGED << active, quotaInfo, context, upload, response, inputImages, quotaCalls, writeFailed, historyDocs, uploadOutcome, monthlyUsage, kind, mode, cost, record, db,
                    localUsage, pollCalls, reserved, result >>

\* one iteration of the loop of pollGenerationResult, followed by what
\* textToImage does with the value the loop returns
Poll(j) ==
    /\ pc[j] = "poll"
    /\ pollAttempt[j] < ImagePollCeiling
    /\ pollCalls' = [pollCalls EXCEPT ![j] = @ + 1]
    /\ LET r == PollResponse(mode[j], attempt[j], pollAttempt[j] + 1)
       IN CASE r.http >= 400 ->
                 /\ OperationFails(j, handleFreepikError(
                        AppError("Freepik API polling error: ", "", r.http,
                                 "FREEPIK_POLL_ERROR")))
                 /\ UNCHANGED images
            [] r.http < 400 /\ ClassifyImagePoll(r.status) = "succeeded" ->
                 IF Len(r.generated) > 0
                 THEN IF r.generated[1] # NoUrl
                      THEN /\ images' = [images EXCEPT ![j] = << r.generated[1] >>]
                           /\ pc' = [pc EXCEPT ![j] = "upload"]
                           /\ pollAttempt' = [pollAttempt EXCEPT ![j] = 0]
                           /\ UNCHANGED << error, attempt >>
                      ELSE /\ OperationFails(j, handleFreepikError(
                                  AppError("Generation completed but no image URL was returned",
                                           "", 500, "NO_IMAGE_URL")))
                           /\ UNCHANGED images
                 ELSE /\ OperationFails(j, handleFreepikError(
                             AppError("Generation completed but no images were produced",
                                      "", 500, "NO_IMAGES_GENERATED")))
                      /\ UNCHANGED images
            [] r.http < 400 /\ ClassifyImagePoll(r.status) = "failed" ->
                 /\ OperationFails(j, handleFreepikError(
                        AppError("Image generation failed: ", OrUnknown(r.error), 500,
                                 "FREEPIK_GENERATION_FAILED")))
                 /\ UNCHANGED images
            [] OTHER ->
                 IF pollAttempt[j] + 1 < ImagePollCeiling
                 THEN /\ pollAttempt' = [pollAttempt EXCEPT ![j] = @ + 1]
                      /\ UNCHANGED << pc, error, attempt, images >>
                 ELSE /\ OperationFails(j, handleFreepikError(
                             AppError("Image generation timed out after 60 seconds",
                                      "", 408, "FREEPIK_TIMEOUT")))
                      /\ UNCHANGED images
    /\ UNCHANGED << active, quotaInfo, context, upload, response, inputImages, quotaCalls, writeFailed, historyDocs, uploadOutcome, monthlyUsage, kind, mode, cost, record, db,
                    localUsage, submitCalls, taskIds, reserved, result >>

\* uploadToCloudinary never throws: a failed upload falls back to the
\* provider url; textToImage then returns its response
Upload(j) ==
    /\ pc[j] = "upload"
    /\ \E uploaded \in BOOLEAN :
          /\ uploadOutcome' = [uploadOutcome EXCEPT ![j] =
                                  IF uploaded THEN "ok" ELSE "failed"]
          /\ IF uploaded \/ UploadFallsBack
             THEN /\ images' = [images EXCEPT ![j] =
                                   ResponseImages(images[j][1], uploaded)]
                  /\ pc' = [pc EXCEPT ![j] = "process"]
                  /\ UNCHANGED << error, attempt, pollAttempt >>
             ELSE /\ OperationFails(j, handleFreepikError(
                         PlainError("Cloudinary upload failed")))
                  /\ UNCHANGED images
    /\ UNCHANGED << active, quotaInfo, context, upload, response, inputImages, quotaCalls, writeFailed, historyDocs, monthlyUsage, kind, mode, cost, record, db,
                    localUsage, submitCalls, pollCalls,
                    taskIds, reserved, result >>

\* processGeneratedImages: one processed image per image of the response
\* (no image.data, no local url: nothing is uploaded here)
ProcessImage(image) == image

ProcessImages(j) ==
    /\ pc[j] = "process"
    /\ images' = [images EXCEPT ![j] = [i \in 1..Len(images[j]) |-> ProcessImage(images[j][i])]]
    /\ pc' = [pc EXCEPT ![j] = "complete"]
    /\ UNCHANGED << active, quotaInfo, context, upload, response, inputImages, quotaCalls, writeFailed, historyDocs, uploadOutcome, monthlyUsage, kind, mode, cost, record, db,
                    localUsage, attempt, pollAttempt, submitCalls, pollCalls,
                    taskIds, reserved, error, result >>

\* updateGenerationRecord(generationRecord, {status: 'completed', ...}) and
\* the return of the success result
Complete(j) ==
    /\ pc[j] = "complete"
    /\ record' = [record EXCEPT ![j].status = "completed",
                                ![j].outputImages = images[j]]
    /\ \E saved \in BOOLEAN :
          /\ writeFailed' = [writeFailed EXCEPT ![j] = @ \/ ~saved]
          /\ db' = IF saved THEN [db EXCEPT ![j] = record'[j]] ELSE db
          /\ IF saved \/ UpdateSwallowsErrors
             THEN /\ result' = [result EXCEPT ![j] = SuccessResult(images[j])]
                  /\ pc' = [pc EXCEPT ![j] = "done"]
                  /\ UNCHANGED error
             ELSE /\ Throw(j, PlainError("save failed"))
                  /\ UNCHANGED result
    /\ UNCHANGED << active, quotaInfo, context, upload, response, inputImages, quotaCalls, historyDocs, uploadOutcome, monthlyUsage, kind, mode, cost,
                    localUsage, attempt, pollAttempt, submitCalls, pollCalls,
                    taskIds, reserved, images >>

\* the catch block of an image entry point
Catch(j) ==
    /\ pc[j] = "catch"
    /\ IF record[j].status # "none"
       THEN /\ record' = [record EXCEPT ![j].status = "failed",
                                        ![j].errorMessage = error[j].message]
            /\ \E saved \in BOOLEAN :
                  /\ writeFailed' = [writeFailed EXCEPT ![j] = @ \/ ~saved]
                  /\ db' = IF saved THEN [db EXCEPT ![j] = record'[j]] ELSE db
                  /\ result' = [result EXCEPT ![j] =
                                   IF saved \/ UpdateSwallowsErrors
                                   THEN FailureResult(error[j])
                                   ELSE ThrownResult(PlainError("save failed"))]
       ELSE /\ result' = [result EXCEPT ![j] = FailureResult(error[j])]
            /\ UNCHANGED << record, db, writeFailed >>
    /\ pc' = [pc EXCEPT ![j] = "done"]
    /\ error' = [error EXCEPT ![j] = NoError]
    /\ UNCHANGED << active, quotaInfo, context, upload, response, inputImages, quotaCalls, historyDocs, uploadOutcome, monthlyUsage, kind, mode, cost,
                    localUsage, attempt, pollAttempt, submitCalls, pollCalls,
                    taskIds, reserved, images >>

(***************************************************************************)
(* generateVideo of the orchestrator with FreepikImageService.imageToVideo *)
(* and pollVideoGenerationResult.  Its catch block rethrows.               *)
(***************************************************************************)
VideoThrow(j, e) ==
    /\ result' = [result EXCEPT ![j] = ThrownResult(e)]
    /\ pc' = [pc EXCEPT ![j] = "done"]

\* generateVideo up to the call of imageToVideo, and imageToVideo up to the
\* answer of its first await (upload of a base64 image or fetch of the url)
VideoPrepare(j) ==
    /\ pc[j] = "start"
    /\ kind[j] = "image-to-video"
    /\ \E valid \in BOOLEAN, reachable \in BOOLEAN :
          CASE ~valid -> VideoThrow(j, AppError("Invalid image URL provided", "", 400,
                                                "INVALID_IMAGE_URL"))
            [] valid /\ ~reachable ->
                  VideoThrow(j, handleFreepikError(
                      AppError("Image URL is not accessible", "", 400,
                               "IMAGE_URL_NOT_ACCESSIBLE")))
            [] OTHER -> pc' = [pc EXCEPT ![j] = "v_submit"] /\ UNCHANGED result
    /\ UNCHANGED << active, quotaInfo, context, upload, response, inputImages, quotaCalls, writeFailed, historyDocs, uploadOutcome, monthlyUsage, kind, mode, cost, record, db,
                    localUsage, attempt, pollAttempt, submitCalls, pollCalls,
                    taskIds, reserved, error, images >>

VideoSubmit(j) ==
    /\ pc[j] = "v_submit"
    /\ submitCalls' = [submitCalls EXCEPT ![j] = @ + 1]
    /\ LET r == SubmitResponse(mode[j], attempt[j])
       IN CASE ~r.ok ->
                 /\ VideoThrow(j, handleFreepikError(
                        AppError("Freepik API error: ", "", r.status,
                                 "FREEPIK_VIDEO_API_ERROR")))
                 /\ UNCHANGED << taskIds, pollAttempt >>
            [] r.ok /\ r.task_id # NoUrl ->
                 /\ taskIds' = [taskIds EXCEPT ![j] = @ + 1]
                 /\ pollAttempt' = [pollAttempt EXCEPT ![j] = 0]
                 /\ pc' = [pc EXCEPT ![j] = "v_poll"]
                 /\ UNCHANGED result
            [] OTHER ->
                 /\ VideoThrow(j, handleFreepikError(
                        AppError("No task ID returned from Freepik video API", "", 500,
                                 "NO_TASK_ID")))
                 /\ UNCHANGED << taskIds, pollAttempt >>
    /\ UNCHANGED << active, quotaInfo, context, upload, response, inputImages, quotaCalls, writeFailed, historyDocs, uploadOutcome, monthlyUsage, kind, mode, cost, record, db,
                    localUsage, attempt, pollCalls, reserved, error, images >>

\* one iteration of the loop of pollVideoGenerationResult
VideoPoll(j) ==
    /\ pc[j] = "v_poll"
    /\ pollAttempt[j] < VideoPollCeiling
    /\ pollCalls' = [pollCalls EXCEPT ![j] = @ + 1]
    /\ LET r == PollResponse(mode[j], attempt[j], pollAttempt[j] + 1)
       IN CASE r.http >= 400 ->
                 /\ VideoThrow(j, handleFreepikError(
                        AppError("Freepik video API polling error: ", "", r.http,
                                 "FREEPIK_VIDEO_POLL_ERROR")))
                 /\ UNCHANGED << images, pollAttempt >>
            [] r.http < 400 /\ ClassifyVideoPoll(r.status) = "succeeded" ->
                 IF Len(r.generated) > 0 /\ r.generated[1] # NoUrl
                 THEN /\ images' = [images EXCEPT ![j] = << r.generated[1] >>]
                      /\ result' = [result EXCEPT ![j] = SuccessResult(<< r.generated[1] >>)]
                      /\ pc' = [pc EXCEPT ![j] = "done"]
                      /\ UNCHANGED pollAttempt
                 ELSE /\ VideoThrow(j, handleFreepikError(
                             AppError("Video generation completed but no video URL was returned",
                                      "", 500, "NO_VIDEO_URL")))
                      /\ UNCHANGED << images, pollAttempt >>
            [] r.http < 400 /\ ClassifyVideoPoll(r.status) = "failed" ->
                 /\ VideoThrow(j, handleFreepikError(
                        AppError("Video generation failed: ", r.error, 500,
                                 "FREEPIK_VIDEO_GENERATION_FAILED")))
                 /\ UNCHANGED << images, pollAttempt >>
            [] OTHER ->
                 IF pollAttempt[j] + 1 < VideoPollCeiling
                 THEN /\ pollAttempt' = [pollAttempt EXCEPT ![j] = @ + 1]
                      /\ UNCHANGED << pc, result, images >>
                 ELSE /\ VideoThrow(j, handleFreepikError(
                             AppError("Video generation timed out after 2 minutes",
                                      "", 408, "FREEPIK_VIDEO_TIMEOUT")))
                      /\ pollAttempt' = [pollAttempt EXCEPT ![j] = @ + 1]
                      /\ UNCHANGED images
    /\ UNCHANGED << active, quotaInfo, context, upload, response, inputImages, quotaCalls, writeFailed, historyDocs, uploadOutcome, monthlyUsage, kind, mode, cost, record, db,
                    localUsage, attempt, submitCalls, taskIds, reserved, error >>

(***************************************************************************)
(* Specification.                                                          *)
(***************************************************************************)
Next ==
    \/ \E j \in active : ValidateImage(j)
    \/ \E j \in active : ValidateContext(j)
    \/ \E j \in active : CreateRecord(j)
    \/ \E j \in active : QuotaCheck(j)
    \/ \E j \in active : QuotaRead(j)
    \/ \E j \in active : QuotaSave(j)
    \/ \E j \in active : MarkProcessing(j)
    \/ \E j \in active : Submit(j)
    \/ \E j \in active : Poll(j)
    \/ \E j \in active : Upload(j)
    \/ \E j \in active : ProcessImages(j)
    \/ \E j \in active : Complete(j)
    \/ \E j \in active : Catch(j)
    \/ \E j \in active : VideoPrepare(j)
    \/ \E j \in active : VideoSubmit(j)
    \/ \E j \in active : VideoPoll(j)

Spec == Init /\ [][Next]_vars

AllDone == \A j \in active : pc[j] = "done"

TypeOK ==
    /\ active \subseteq Jobs
    /\ monthlyUsage \in Nat
    /\ \A j \in Jobs : pc[j] \in {"idle", "start", "validate", "create", "quota",
                                  "quotaRead", "quotaSave", "markProcessing",
                                  "submit", "poll", "upload", "process", "complete",
                                  "catch", "v_submit", "v_poll", "done",
                                  "responded", "received", "s_submit",
                                  "s_poll", "m_start", "m_callback",
                                  "m_sharp"}
    /\ \A j \in Jobs : upload[j].onDisk \in 0..MaxImages
    /\ \A j \in Jobs : response[j].status \in {0, 200, 400, 401, 500}
    /\ \A j \in Jobs : record[j].status \in {"none", "pending", "processing",
                                             "completed", "failed"}
    /\ \A j \in Jobs : attempt[j] \in 1..RetryMaxAttempts
    /\ \A j \in Jobs : uploadOutcome[j] \in {"none", "ok", "failed"}
    /\ \A j \in Jobs : historyDocs[j] \in 0..2
    /\ \A j \in Jobs : quotaCalls[j] \in 0..MaxQuotaCalls
    /\ \A j \in Jobs : inputImages[j] \in 0..MaxImages
    /\ writeFailed \in [Jobs -> BOOLEAN]
    /\ \A j \in Jobs : context[j] \in Contexts

(***************************************************************************)
(* The HTTP handlers: ImageGenerationController (one request handled end   *)
(* to end: the controller calls the orchestrator entry point, then saves   *)
(* the generation history and answers the request) and the video           *)
(* controller's generateVideoSync, which calls videoGenerationService      *)
(* without the orchestrator.                                               *)
(***************************************************************************)
SyncKind == "video-sync"

HandlerKinds == ImageKinds \cup {SyncKind}

\* waitForVideoCompletion(taskId, 60, 5000) as generateVideoSync calls it
SyncPollCeiling == 60

\* bodies of the responses, as the set of their fields
ImageFailureBody == {"success", "message"}

VideoFailureBody == {"success", "error"}

SuccessBody == {"success", "data"}

Respond(j, status, body) ==
    /\ response' = [response EXCEPT ![j] = HttpResponse(status, body)]
    /\ pc' = [pc EXCEPT ![j] = "responded"]

(***************************************************************************)
(* Upload middleware in front of the image-to-image, refine and            *)
(* multi-image handlers: uploadSingleImage and uploadMultipleImages.       *)
(* File system calls are taken to succeed.                                 *)
(***************************************************************************)
UploadKinds == {"image-to-image", "refine", "multi-image"}

\* what sharp(file.path).metadata() tells about a file
Metadata == {"ok", "tooSmall", "tooLarge", "unreadable"}

\* fs.unlinkSync of every file of the request that is on disk
UnlinkAll_None(onDisk) == onDisk
UnlinkAll(onDisk) == 0

\* the `return` that follows a response
ReturnAfterResponse_Off == FALSE
ReturnAfterResponse == TRUE

\* res.status(status).json({ success: false, message }) of the middleware
Reject(j, status, why, onDisk) ==
    /\ response' = [response EXCEPT ![j] = HttpResponse(status, ImageFailureBody)]
    /\ upload' = [upload EXCEPT ![j].sent = @ + 1, ![j].reason = why,
                                ![j].onDisk = onDisk]
    /\ pc' = [pc EXCEPT ![j] = "responded"]

\* next(): the request goes on to the controller method
CallNext(j) ==
    /\ upload' = [upload EXCEPT ![j].nextCalls = @ + 1]
    /\ pc' = [pc EXCEPT ![j] = "received"]
    /\ UNCHANGED response

\* the synchronous part: createMulterUpload and the call of multer, which
\* stores the files of the request in the temp directory; a throw is
\* answered by the outer catch with 500
UploadStart(j) ==
    /\ pc[j] = "m_start"
    /\ kind[j] \in UploadKinds
    /\ \E thrown \in BOOLEAN :
          IF thrown THEN Reject(j, 500, "internal", 0)
          ELSE /\ upload' = [upload EXCEPT ![j].onDisk = inputImages[j]]
               /\ pc' = [pc EXCEPT ![j] = "m_callback"]
               /\ UNCHANGED response
    /\ UNCHANGED << active, quotaInfo, context, inputImages, quotaCalls, writeFailed, historyDocs,
                    uploadOutcome, monthlyUsage, kind, mode, cost, record, db,
                    localUsage, attempt, pollAttempt, submitCalls, pollCalls,
                    taskIds, reserved, error, images, result >>

\* the multer callback up to the first await: a multer error (multer has
\* removed what it stored), no file, fewer than two files of a composition
UploadCallback(j) ==
    /\ pc[j] = "m_callback"
    /\ \E failed \in BOOLEAN :
          IF failed THEN Reject(j, 400, "multer", 0)
          ELSE IF upload[j].onDisk = 0 THEN Reject(j, 400, "missing", 0)
          ELSE IF kind[j] = "multi-image" /\ upload[j].onDisk < 2
          THEN Reject(j, 400, "tooFew", UnlinkAll(upload[j].onDisk))
          ELSE /\ upload' = [upload EXCEPT ![j].idx = 1]
               /\ pc' = [pc EXCEPT ![j] = "m_sharp"]
               /\ UNCHANGED response
    /\ UNCHANGED << active, quotaInfo, context, inputImages, quotaCalls, writeFailed, historyDocs,
                    uploadOutcome, monthlyUsage, kind, mode, cost, record, db,
                    localUsage, attempt, pollAttempt, submitCalls, pollCalls,
                    taskIds, reserved, error, images, result >>

\* one `await sharp(file.path).metadata()` and the checks that follow it: a
\* dimension violation or an unreadable file deletes the files and answers
\* 400; after the last file next() is called
UploadValidate(j) ==
    /\ pc[j] = "m_sharp"
    /\ \E metadata \in Metadata :
          IF metadata = "unreadable"
          THEN Reject(j, 400, "invalid", UnlinkAll(upload[j].onDisk))
          ELSE IF metadata \in {"tooSmall", "tooLarge"} /\ ReturnAfterResponse
          THEN Reject(j, 400, "dimension", UnlinkAll(upload[j].onDisk))
          ELSE IF metadata \in {"tooSmall", "tooLarge"}
          THEN /\ response' = [response EXCEPT ![j] = HttpResponse(400, ImageFailureBody)]
               /\ upload' = [upload EXCEPT ![j].sent = @ + 1,
                                           ![j].reason = "dimension",
                                           ![j].onDisk = UnlinkAll(@),
                                           ![j].nextCalls = @ + 1]
               /\ pc' = [pc EXCEPT ![j] = "received"]
          ELSE IF upload[j].idx < upload[j].onDisk
          THEN /\ upload' = [upload EXCEPT ![j].idx = @ + 1]
               /\ UNCHANGED << pc, response >>
          ELSE CallNext(j)
    /\ UNCHANGED << active, quotaInfo, context, inputImages, quotaCalls, writeFailed, historyDocs,
                    uploadOutcome, monthlyUsage, kind, mode, cost, record, db,
                    localUsage, attempt, pollAttempt, submitCalls, pollCalls,
                    taskIds, reserved, error, images, result >>

\* the controller method up to the orchestrator call: no userId is 401, a
\* missing source image is 400, a failure of ensureUserExists (textToImage)
\* is thrown into the catch-all, which answers 500
ReceiveRequest(j) ==
    /\ pc[j] = "received"
    /\ kind[j] \in ImageKinds
    /\ \E userId \in BOOLEAN, userFound \in BOOLEAN :
          IF ~userId THEN Respond(j, 401, ImageFailureBody)
          ELSE IF kind[j] \in UploadKinds /\ inputImages[j] = 0
                 THEN Respond(j, 400, ImageFailureBody)
          ELSE IF kind[j] = "text-to-image" /\ ~userFound
                 THEN Respond(j, 500, ImageFailureBody)
          ELSE /\ pc' = [pc EXCEPT ![j] = "start"]
               /\ UNCHANGED response
    /\ UNCHANGED << active, quotaInfo, context, upload, inputImages, quotaCalls, writeFailed, historyDocs,
                    uploadOutcome, monthlyUsage, kind, mode, cost, record, db,
                    localUsage, attempt, pollAttempt, submitCalls, pollCalls,
                    taskIds, reserved, error, images, result >>

\* saveGenerationHistory, called whatever the orchestrator returned:
\* ImageGenerationModel.create inside a try/catch that swallows the failure;
\* then `if (!result.success) res.status(400)`, else 200; an orchestrator
\* that threw is answered by the catch-all with 500 and saves no history
SaveGenerationHistory(j) ==
    /\ pc[j] = "done"
    /\ kind[j] \in ImageKinds
    /\ upload' = [upload EXCEPT ![j].onDisk = IF kind[j] \in UploadKinds
                                              THEN UnlinkAll(@) ELSE @]
    /\ IF result[j].outcome = "thrown"
       THEN /\ Respond(j, 500, ImageFailureBody)
            /\ UNCHANGED << historyDocs, writeFailed >>
       ELSE /\ \E created \in BOOLEAN :
                  /\ historyDocs' = [historyDocs EXCEPT ![j] = IF created THEN @ + 1 ELSE @]
                  /\ writeFailed' = [writeFailed EXCEPT ![j] = @ \/ ~created]
            /\ IF result[j].outcome = "failure"
               THEN Respond(j, 400, ImageFailureBody)
               ELSE Respond(j, 200, SuccessBody)
    /\ UNCHANGED << active, quotaInfo, context, inputImages, quotaCalls, uploadOutcome, monthlyUsage, kind, mode, cost,
                    record, db, localUsage, attempt, pollAttempt, submitCalls,
                    pollCalls, taskIds, reserved, error, images, result >>

\* generateVideoSync: `if (!image)` and `if (!prompt)` answer 400
SyncReceive(j) ==
    /\ pc[j] = "received"
    /\ kind[j] = SyncKind
    /\ \E image \in BOOLEAN, prompt \in BOOLEAN :
          IF ~image \/ ~prompt THEN Respond(j, 400, VideoFailureBody)
          ELSE /\ pc' = [pc EXCEPT ![j] = "s_submit"]
               /\ UNCHANGED response
    /\ UNCHANGED << active, quotaInfo, context, upload, inputImages, quotaCalls, writeFailed, historyDocs,
                    uploadOutcome, monthlyUsage, kind, mode, cost, record, db,
                    localUsage, attempt, pollAttempt, submitCalls, pollCalls,
                    taskIds, reserved, error, images, result >>

\* videoGenerationService.generateVideo: one axios.post, an error is rethrown
\* as a plain Error and answered by the handler's catch with 500
SyncSubmit(j) ==
    /\ pc[j] = "s_submit"
    /\ submitCalls' = [submitCalls EXCEPT ![j] = @ + 1]
    /\ LET r == SubmitResponse(mode[j], 1)
       IN IF ~r.ok
          THEN /\ Respond(j, 500, VideoFailureBody)
               /\ UNCHANGED taskIds
          ELSE /\ taskIds' = [taskIds EXCEPT ![j] = IF r.task_id = NoUrl THEN @ ELSE @ + 1]
               /\ pc' = [pc EXCEPT ![j] = "s_poll"]
               /\ UNCHANGED response
    /\ UNCHANGED << active, quotaInfo, context, upload, inputImages, quotaCalls, writeFailed, historyDocs,
                    uploadOutcome, monthlyUsage, kind, mode, cost, record, db,
                    localUsage, attempt, pollAttempt, pollCalls, reserved, error,
                    images, result >>

\* waitForVideoCompletion: one getVideoStatus per turn of the loop; COMPLETED
\* returns, FAILED throws, anything else waits; after maxAttempts turns it
\* throws 'Video generation timed out'.  A status request without a task id
\* fails as an HTTP error.
SyncPoll(j) ==
    /\ pc[j] = "s_poll"
    /\ pollAttempt[j] < SyncPollCeiling
    /\ pollCalls' = [pollCalls EXCEPT ![j] = @ + 1]
    /\ LET r == PollResponse(mode[j], 1, pollAttempt[j] + 1)
           outcome == ClassifySyncPoll(r.status)
       IN IF taskIds[j] = 0 \/ r.http >= 400
          THEN /\ Respond(j, 500, VideoFailureBody)
               /\ UNCHANGED << pollAttempt, images >>
          ELSE IF outcome = "succeeded"
          THEN /\ Respond(j, 200, SuccessBody)
               /\ images' = [images EXCEPT ![j] = r.generated]
               /\ UNCHANGED pollAttempt
          ELSE IF outcome = "failed"
          THEN /\ Respond(j, 500, VideoFailureBody)
               /\ UNCHANGED << pollAttempt, images >>
          ELSE IF pollAttempt[j] + 1 >= SyncPollCeiling
          THEN /\ Respond(j, 500, VideoFailureBody)
               /\ pollAttempt' = [pollAttempt EXCEPT ![j] = @ + 1]
               /\ UNCHANGED images
          ELSE /\ pollAttempt' = [pollAttempt EXCEPT ![j] = @ + 1]
               /\ UNCHANGED << pc, response, images >>
    /\ UNCHANGED << active, quotaInfo, context, upload, inputImages, quotaCalls, writeFailed, historyDocs,
                    uploadOutcome, monthlyUsage, kind, mode, cost, record, db,
                    localUsage, attempt, submitCalls, taskIds, reserved, error,
                    result >>

\* files of the request: upload.single keeps at most one, upload.array the
\* n of a composition; the other kinds carry no upload
RequestFiles(k, n) ==
    CASE k = "multi-image" -> n
      [] k \in UploadKinds  -> IF n = 0 THEN 0 ELSE 1
      [] OTHER              -> InputCount(k, IF n = 0 THEN 1 ELSE n)

\* createContext sets subscriptionInfo.isActive to true, ensureUserExists has
\* found or created the user
ControllerContexts == { x \in Contexts : x.isActive /\ x.user # "unknown" }

\* one request: to an image endpoint, to generateVideoSync, or a direct call
\* of the orchestrator's generateVideo
InitController ==
    /\ active = {1}
    /\ quotaInfo \in 0..MaxRemaining
    /\ monthlyUsage = 0
    /\ \E k \in Kinds \cup {SyncKind}, m \in Modes, c \in 1..MaxCost, n \in 0..MaxImages :
          /\ kind = [j \in Jobs |-> IF j = 1 THEN k ELSE "text-to-image"]
          /\ mode = [j \in Jobs |-> IF j = 1 THEN m ELSE "Immediate"]
          /\ cost = [j \in Jobs |-> IF j = 1 THEN c ELSE 1]
          /\ inputImages = [j \in Jobs |-> IF j = 1 THEN RequestFiles(k, n) ELSE 0]
          /\ pc = [j \in Jobs |-> IF j # 1 THEN "idle"
                                  ELSE IF k \in UploadKinds THEN "m_start"
                                  ELSE IF k \in HandlerKinds THEN "received"
                                  ELSE "start"]
          /\ \E x \in (IF k \in ImageKinds THEN ControllerContexts
                        ELSE {ValidContext("plus")}) :
                context = [j \in Jobs |-> IF j = 1 THEN x ELSE ValidContext("plus")]
    /\ record = [j \in Jobs |-> NoRecord]
    /\ db = [j \in Jobs |-> NoRecord]
    /\ localUsage = [j \in Jobs |-> 0]
    /\ attempt = [j \in Jobs |-> 1]
    /\ pollAttempt = [j \in Jobs |-> 0]
    /\ submitCalls = [j \in Jobs |-> 0]
    /\ pollCalls = [j \in Jobs |-> 0]
    /\ taskIds = [j \in Jobs |-> 0]
    /\ reserved = [j \in Jobs |-> FALSE]
    /\ error = [j \in Jobs |-> NoError]
    /\ images = [j \in Jobs |-> <<>>]
    /\ uploadOutcome = [j \in Jobs |-> "none"]
    /\ historyDocs = [j \in Jobs |-> 0]
    /\ writeFailed = [j \in Jobs |-> FALSE]
    /\ quotaCalls = [j \in Jobs |-> 0]
    /\ response = [j \in Jobs |-> NoResponse]
    /\ upload = [j \in Jobs |-> NoUpload]
    /\ result = [j \in Jobs |-> NoResult]

NextController ==
    \/ Next
    \/ \E j \in active : UploadStart(j)
    \/ \E j \in active : UploadCallback(j)
    \/ \E j \in active : UploadValidate(j)
    \/ \E j \in active : ReceiveRequest(j)
    \/ \E j \in active : SaveGenerationHistory(j)
    \/ \E j \in active : SyncReceive(j)
    \/ \E j \in active : SyncSubmit(j)
    \/ \E j \in active : SyncPoll(j)

ControllerSpec == InitController /\ [][NextController]_vars

Responded(j) == j \in active /\ pc[j] = "responded"

(***************************************************************************)
(* The quota operation on its own: validateAndConsumeQuota called for a    *)
(* record that exists, and called again with the same record once it has   *)
(* returned.  The owner may have used part of the quota before.            *)
(***************************************************************************)
InitLedger ==
    /\ active = {1}
    /\ quotaInfo \in 0..MaxRemaining
    /\ monthlyUsage \in 0..MaxRemaining
    /\ mode = [j \in Jobs |-> "Immediate"]
    /\ context = [j \in Jobs |-> ValidContext("plus")]
    /\ \E k \in ImageKinds, c \in 1..MaxCost, n \in 1..MaxImages :
          /\ kind = [j \in Jobs |-> IF j = 1 THEN k ELSE "text-to-image"]
          /\ cost = [j \in Jobs |-> IF j = 1 THEN c ELSE 1]
          /\ inputImages = [j \in Jobs |-> IF j = 1 THEN InputCount(k, n) ELSE 0]
          /\ record = [j \in Jobs |-> IF j = 1
                                      THEN [NoRecord EXCEPT !.status = "pending",
                                                            !.credits = c]
                                      ELSE NoRecord]
    /\ db = record
    /\ pc = [j \in Jobs |-> IF j = 1 THEN "quota" ELSE "idle"]
    /\ historyDocs = [j \in Jobs |-> IF j = 1 THEN 1 ELSE 0]
    /\ localUsage = [j \in Jobs |-> 0]
    /\ attempt = [j \in Jobs |-> 1]
    /\ pollAttempt = [j \in Jobs |-> 0]
    /\ submitCalls = [j \in Jobs |-> 0]
    /\ pollCalls = [j \in Jobs |-> 0]
    /\ taskIds = [j \in Jobs |-> 0]
    /\ reserved = [j \in Jobs |-> FALSE]
    /\ error = [j \in Jobs |-> NoError]
    /\ images = [j \in Jobs |-> <<>>]
    /\ uploadOutcome = [j \in Jobs |-> "none"]
    /\ writeFailed = [j \in Jobs |-> FALSE]
    /\ quotaCalls = [j \in Jobs |-> 0]
    /\ response = [j \in Jobs |-> NoResponse]
    /\ upload = [j \in Jobs |-> NoUpload]
    /\ result = [j \in Jobs |-> NoResult]

\* validateAndConsumeQuota has returned ({success: true} at "submit",
\* {success: false} at "catch") and is called with the same record again
ConsumeQuotaAgain(j) ==
    /\ pc[j] \in {"submit", "catch"}
    /\ quotaCalls[j] < MaxQuotaCalls
    /\ pc' = [pc EXCEPT ![j] = "quota"]
    /\ error' = [error EXCEPT ![j] = NoError]
    /\ UNCHANGED << active, quotaInfo, context, upload, response, inputImages, monthlyUsage, kind, mode, cost, record, db,
                    localUsage, attempt, pollAttempt, submitCalls, pollCalls,
                    taskIds, reserved, images, uploadOutcome, historyDocs,
                    writeFailed, quotaCalls, result >>

NextLedger ==
    \/ \E j \in active : QuotaCheck(j)
    \/ \E j \in active : QuotaRead(j)
    \/ \E j \in active : QuotaSave(j)
    \/ \E j \in active : MarkProcessing(j)
    \/ \E j \in active : ConsumeQuotaAgain(j)

LedgerSpec == InitLedger /\ [][NextLedger]_vars

(***************************************************************************)
(* Properties.                                                             *)
(***************************************************************************)
Ended(j) == j \in active /\ pc[j] = "done"

EndedFailed(j) == Ended(j) /\ result[j].outcome = "failure"

EndedCompleted(j) == Ended(j) /\ result[j].outcome = "success"

ResultReason(j) == Reason(result[j].code, result[j].statusCode)

RECURSIVE SumCost(_)
SumCost(S) ==
    IF S = {} THEN 0
    ELSE LET j == CHOOSE x \in S : TRUE IN cost[j] + SumCost(S \ {j})

PollCeiling(k) == IF k = "image-to-video" THEN VideoPollCeiling ELSE ImagePollCeiling

\* C1: a job that runs alone and ends Failed after its quota was reserved
\* leaves the owner's usage counter at the value it had before the job.
C1_FailedJobConsumesNoQuota ==
    \A j \in Jobs :
        (active = {j} /\ EndedFailed(j) /\ reserved[j]) => monthlyUsage = 0

\* C2: two jobs of one owner never both pass the reserve step when the
\* remaining balance they were admitted with covers each cost but not both.
C2_NoDoubleReserve ==
    \A i \in active : \A j \in active \ {i} :
        (/\ cost[i] <= quotaInfo
         /\ cost[j] <= quotaInfo
         /\ cost[i] + cost[j] > quotaInfo)
        => ~(reserved[i] /\ reserved[j])

\* C3: once all image jobs of the owner have ended, the usage counter equals the
\* sum of the costs of exactly the jobs that ended Completed.
C3_UsageIsSumOfCompleted ==
    (AllDone /\ \A j \in active : kind[j] \in ImageKinds)
    => monthlyUsage = SumCost({j \in active : EndedCompleted(j)})

\* C4: a job that reaches the quota step with a remaining quota below its
\* cost ends Failed with reason QuotaExceeded, never calls the provider
\* submit operation and never changes the owner's usage counter.
C4_QuotaExceeded ==
    \A j \in active :
        (record[j].status # "none" /\ quotaInfo < record[j].credits)
        => /\ submitCalls[j] = 0
           /\ ~reserved[j]
           /\ (active = {j} => monthlyUsage = 0)
           /\ Ended(j) => /\ result[j].outcome = "failure"
                          /\ ResultReason(j) = "QuotaExceeded"
                          /\ record[j].status = "failed"

C4_Witness ==
    \E j \in active :
        /\ Ended(j)
        /\ record[j].status = "failed"
        /\ quotaInfo < record[j].credits
        /\ result[j].code = "QUOTA_EXCEEDED"

StatusRank(st) ==
    CASE st = "none" -> 0
      [] st = "pending" -> 1
      [] st = "processing" -> 2
      [] OTHER -> 3

Terminal(st) == st \in {"completed", "failed"}

\* C5: the status of a job record, in memory and as persisted, only moves
\* forward (pending, processing, then completed or failed), and a record
\* that is completed or failed never changes its status again.
C5_StateMonotonic ==
    [][\A j \in Jobs :
          /\ StatusRank(record'[j].status) >= StatusRank(record[j].status)
          /\ StatusRank(db'[j].status) >= StatusRank(db[j].status)
          /\ Terminal(record[j].status) => record'[j].status = record[j].status
          /\ Terminal(db[j].status) => db'[j].status = db[j].status]_vars

C5_Witness ==
    \E j \in active :
        /\ Ended(j)
        /\ record[j].status = "completed"
        /\ db[j].status = "processing"

\* C6: a record whose status is completed has at least one output image; a
\* record whose status is failed has an error message and no output image.
C6_OutputInvariant ==
    \A j \in Jobs : \A doc \in {record[j], db[j]} :
        /\ doc.status = "completed" => Len(doc.outputImages) >= 1
        /\ doc.status = "failed" => /\ doc.errorMessage.prefix # ""
                                    /\ Len(doc.outputImages) = 0

C6_Witness ==
    \E i \in active : \E j \in active :
        /\ db[i].status = "completed" /\ Len(db[i].outputImages) = 1
        /\ db[j].status = "failed" /\ db[j].errorMessage.prefix # ""

\* C7: no orchestrator entry point lets a collaborator failure escape as a
\* thrown exception: every job ends with a Success or a Failure result.
C7_NeverThrows ==
    \A j \in Jobs : result[j].outcome # "thrown"

C9_PollBound ==
    \A j \in active :
        mode[j] = "AlwaysRunning"
        => /\ pollCalls[j] <= PollCeiling(kind[j])
           /\ (Ended(j) /\ taskIds[j] >= 1)
              => /\ pollCalls[j] = PollCeiling(kind[j])
                 /\ ResultReason(j) = "Timeout"

\* C10: an image job one of whose polls returned a failed status with a
\* provider error text ends Failed with reason ProviderGenerationFailed and
\* keeps that text in the error detail of its record.
C10_ProviderFailurePreserved ==
    \A j \in active :
        (/\ Ended(j)
         /\ kind[j] \in ImageKinds
         /\ mode[j] \in {"PollFailed", "PollFailedOnce"}
         /\ pollCalls[j] >= 1)
        => /\ result[j].outcome = "failure"
           /\ ResultReason(j) = "ProviderGenerationFailed"
           /\ record[j].errorMessage.detail = ProviderErrorText

ProviderUrl == "https://x/img.png"

\* C11: an image job whose provider call succeeded and whose upload of the
\* output to the media store failed still ends Completed, and the caller
\* receives a Success result that contains that output.
C11_UploadFailureStillCompletes ==
    \A j \in active :
        (Ended(j) /\ uploadOutcome[j] = "failed")
        => /\ result[j].outcome = "success"
           /\ record[j].status = "completed"
           /\ Len(result[j].images) = 1
           /\ result[j].images[1].originalUrl = ProviderUrl
           /\ result[j].images[1].url # NoUrl

C11_Witness ==
    \E j \in active :
        /\ Ended(j)
        /\ uploadOutcome[j] = "failed"
        /\ result[j].outcome = "success"
        /\ record[j].outputImages = result[j].images

\* the field of an output that carries the media store's url
DurableUrl(img) == img.secureUrl

\* the only mark the code ever puts on an output that was not processed
Unpersisted(img) == img.processingError # ""

\* C12: for every output of a completed image job the durable url is present
\* if and only if the upload succeeded; an output whose upload failed keeps
\* the provider url, carries a mark that it is unpersisted, and no provider
\* output is missing from the outputs.
C12_DurableUrlIffUploaded ==
    \A j \in active :
        (kind[j] \in ImageKinds /\ EndedCompleted(j))
        => /\ Len(result[j].images) = 1
           /\ \A i \in 1..Len(result[j].images) :
                 LET img == result[j].images[i]
                 IN /\ (DurableUrl(img) # NoUrl) <=> (uploadOutcome[j] = "ok")
                    /\ img.originalUrl = ProviderUrl
                    /\ uploadOutcome[j] = "failed" => Unpersisted(img)

\* provider behaviours in which a poll answers COMPLETED with an empty
\* output list and no output url
EmptyModes == {"PollEmpty", "PollEmptyOnce"}

\* C13: a job one of whose polls reported the task completed with an empty
\* output list and no output url ends Failed with reason NoOutputsProduced
\* and never ends Completed.
C13_NoOutputsProduced ==
    \A j \in active :
        (mode[j] \in EmptyModes /\ pollCalls[j] >= 1)
        => /\ record[j].status # "completed"
           /\ Ended(j) => /\ result[j].outcome # "success"
                          /\ ResultReason(j) = "NoOutputsProduced"

\* C14: for every image generation request that was handled end to end (the
\* orchestrator returned and the request was answered) with no failing write
\* to the history store, whatever its outcome, exactly one history record
\* has been written: never zero and never two.
C14_ExactlyOneHistoryRecord ==
    \A j \in active :
        (Responded(j) /\ result[j].outcome \in {"success", "failure"}
                      /\ ~writeFailed[j])
        => historyDocs[j] = 1

\* provider behaviours that end with an image within the three attempts of
\* executeWithRetry
DeliveringModes == {"Immediate", "PollOk", "PollOkLower", "FlakySubmit",
                    "PollFailedOnce", "PollEmptyOnce"}

\* what an image job that passed the quota step returns when every write to
\* the history store succeeds
ExpectedOutcome(m) == IF m \in DeliveringModes THEN "success" ELSE "failure"

\* C15: a failing write to the history store (creating the record, updating
\* it, saving the summary) leaves the result returned to the caller as it
\* is when the write succeeds: an image job that passed the quota step ends
\* with the result its provider behaviour determines.
C15_HistoryWriteIsolated ==
    \A j \in active :
        (Ended(j) /\ kind[j] \in ImageKinds /\ reserved[j])
        => result[j].outcome = ExpectedOutcome(mode[j])

\* C16: for every job kind, image-to-video included, the provider submit is
\* called for a job only after the job reserved its quota.
C16_SubmitOnlyAfterReserve ==
    \A j \in active : submitCalls[j] >= 1 => reserved[j]

\* the reservation of a job that ran alone is resolved: its cost stays in the
\* owner's usage when the job completed (commit) and is out of it when the
\* job failed (rollback)
ReservationResolved(j) ==
    /\ result[j].outcome = "success" => monthlyUsage = record[j].credits
    /\ result[j].outcome # "success" => monthlyUsage = 0

\* C17: every job that reserved quota has resolved the reservation when it
\* ends, by a commit when it ends Completed and by a rollback when it ends
\* Failed, also when a later write to the history store failed.
C17_ReservationResolvedOnce ==
    \A j \in Jobs :
        (active = {j} /\ Ended(j) /\ reserved[j]) => ReservationResolved(j)

RejectingModes == {"Submit4xx", "SubmitAuth"}

\* C20: an image job whose provider submit is refused with a non-retryable
\* error makes that one submit call and no other, polls nothing, and ends
\* Failed with reason ProviderRejected.
C20_NoRetryOnRejection ==
    \A j \in active :
        (kind[j] \in ImageKinds /\ mode[j] \in RejectingModes)
        => /\ submitCalls[j] <= 1
           /\ pollCalls[j] = 0
           /\ submitCalls[j] = 1 => pc[j] \in {"catch", "done"}
           /\ (Ended(j) /\ submitCalls[j] = 1)
              => /\ result[j].outcome = "failure"
                 /\ ResultReason(j) = "ProviderRejected"
                 /\ record[j].status = "failed"

C20_Witness ==
    \E j \in active :
        /\ Ended(j)
        /\ mode[j] = "SubmitAuth"
        /\ submitCalls[j] = 1
        /\ result[j].code = "FREEPIK_API_ERROR"
        /\ result[j].statusCode = 401

\* C21: a job whose submit response already carries the final output url
\* makes no poll call and goes on to output processing: it is processing
\* its output or has ended with a Success result.
C21_ImmediateSkipsPolling ==
    \A j \in active :
        (mode[j] = "Immediate" /\ submitCalls[j] >= 1)
        => /\ pollCalls[j] = 0
           /\ \/ pc[j] \in {"upload", "process", "complete"}
              \/ EndedCompleted(j)

\* status strings of the poll responses and the three outcomes of a poll
PollStatuses == {"COMPLETED", "completed", "FAILED", "failed", "PROCESSING", ""}

PollOutcomes == {"stillRunning", "succeeded", "failed"}

\* C22: in every poll loop a poll response is classified into exactly one of
\* still running, succeeded and failed, and a completed status ends the loop
\* whatever its letter case: against a provider whose second poll answers
\* 'completed' no loop makes a third poll.
C22_PollClassification ==
    /\ \A s \in PollStatuses :
          /\ ClassifyImagePoll(s) \in PollOutcomes
          /\ ClassifyVideoPoll(s) \in PollOutcomes
          /\ ClassifySyncPoll(s) \in PollOutcomes
    /\ \A j \in active : mode[j] = "PollOkLower" => pollCalls[j] <= 2

\* C23: the HTTP status of a failed generation response follows the failure
\* reason: a validation or quota-exceeded failure is answered with 400, an
\* unexpected failure or a timeout with 500.
C23_StatusFollowsReason ==
    \A j \in active :
        (Responded(j) /\ result[j].outcome = "failure")
        => /\ ResultReason(j) \in {"ValidationError", "QuotaExceeded"}
                => response[j].status = 400
           /\ ResultReason(j) \in {"Timeout", "Unexpected"}
                => response[j].status = 500

\* C24: every failure response sent to the caller of a generation endpoint
\* is a JSON body that carries a code field naming the failure kind.
C24_FailureBodyHasCode ==
    \A j \in active :
        (Responded(j) /\ response[j].status >= 400)
        => "code" \in response[j].body

\* C25: a request that fails validation (empty or whitespace-only prompt,
\* prompt longer than 2000 characters, quality outside the tier's capability
\* set, batch size above the tier's limit, unknown or inactive user) causes
\* no quota mutation, no provider call and no retry, and ends as a
\* validation failure (unless the user lookup itself failed).  A composition
\* request of a free-tier caller is rejected before validation.
C25_ValidationRejects ==
    \A j \in active :
        LET ctx == context[j]
            caps == getModelCapabilities(ctx.subscriptionTier)
            invalid == \/ ctx.prompt.trimmed = 0
                       \/ ctx.prompt.len > 2000
                       \/ ctx.quality \notin caps.availableQualities
                       \/ ctx.batchSize > caps.maxBatchSize
                       \/ ctx.user \in {"unknown", "inactive"}
        IN (/\ kind[j] \in ImageKinds
            /\ invalid
            /\ ~(kind[j] = "multi-image" /\ ctx.subscriptionTier = "free"))
           => /\ quotaCalls[j] = 0 /\ ~reserved[j] /\ monthlyUsage = 0
              /\ submitCalls[j] = 0 /\ pollCalls[j] = 0
              /\ attempt[j] = 1
              /\ record[j] = NoRecord
              /\ Ended(j) => /\ result[j].outcome = "failure"
                             /\ result[j].code # "GENERATION_FAILED"
                                  => ResultReason(j) = "ValidationError"

\* a free-tier request for quality 'hd' has ended as a validation failure
C25_Witness ==
    \E j \in active :
        /\ kind[j] = "text-to-image"
        /\ context[j].subscriptionTier = "free" /\ context[j].quality = "hd"
        /\ Ended(j)
        /\ ResultReason(j) = "ValidationError"
        /\ submitCalls[j] = 0

\* C26: the owner's consumed usage never exceeds the cap: the owner starts
\* with usage 0 and quotaInfo remaining, so the usage counter stays at or
\* below quotaInfo after any sequence of jobs.
C26_UsageWithinCap == monthlyUsage <= quotaInfo

\* C27: within one job the provider accepts at most one submission (the job
\* obtains at most one task id, whatever fails afterwards) and the owner's
\* usage is debited at most once.
C27_OneAcceptedSubmission ==
    \A j \in active :
        /\ taskIds[j] <= 1
        /\ quotaCalls[j] <= 1

\* C28: a multi-image composition request of a free-tier caller is rejected
\* with a subscription error, and no job record is created, no quota is
\* consumed and no provider call is made for it.
C28_FreeTierCompositionRejected ==
    \A j \in active :
        (kind[j] = "multi-image" /\ context[j].subscriptionTier = "free")
        => /\ record[j] = NoRecord /\ db[j] = NoRecord /\ historyDocs[j] = 0
           /\ quotaCalls[j] = 0 /\ ~reserved[j] /\ monthlyUsage = 0
           /\ submitCalls[j] = 0 /\ pollCalls[j] = 0
           /\ Ended(j) => /\ result[j].outcome = "failure"
                          /\ result[j].code = "SUBSCRIPTION_ERROR"

\* a free-tier composition request has been rejected
C28_Witness ==
    \E j \in active :
        /\ kind[j] = "multi-image" /\ context[j].subscriptionTier = "free"
        /\ inputImages[j] >= 2
        /\ Ended(j)
        /\ result[j].code = "SUBSCRIPTION_ERROR"

InMiddleware(j) == pc[j] \in {"m_start", "m_callback", "m_sharp"}

\* C30: for every request the upload middleware sends one response or calls
\* next once: never both, and once it has finished never neither.
C30_RespondOrNext ==
    \A j \in active :
        kind[j] \in UploadKinds
        => /\ upload[j].sent + upload[j].nextCalls <= 1
           /\ ~InMiddleware(j) => upload[j].sent + upload[j].nextCalls = 1

\* the second file of a composition violated the dimension limits: the
\* middleware answered and did not call next
C30_Witness ==
    \E j \in active :
        /\ kind[j] = "multi-image"
        /\ upload[j].idx = 2
        /\ upload[j].reason = "dimension"
        /\ upload[j].sent = 1 /\ upload[j].nextCalls = 0
        /\ response[j].status = 400

====
